---------------------------- MODULE Spec2Model ----------------------------
(***************************************************************************)
(* ChainBench: dataset authority (data/generate_data.py), benchmark runner *)
(* (runner/run_all.py) and statistics engine (report-builder/              *)
(* build_report.py) as state machines.                                     *)
(*                                                                         *)
(* A file is a record [exists, content].  An array file's content is a     *)
(* sequence of bytes, a text file's content a sequence of one-character    *)
(* strings, metadata.json's content the record json.dump wrote.            *)
(***************************************************************************)
EXTENDS Integers, Sequences, FiniteSets, TLC

\* ------------------------------------------------------------------ bounds
\* Largest row count N a command line may ask for.
MaxN == 2
\* Largest axis count M.
MaxM == 1
\* Largest dimensionality D.
MaxD == 1
\* Largest random seed.
MaxSeed == 1
\* Largest value of a byte of an array file (bytes are 0..MaxByte).
MaxByte == 1
\* Largest --runs given to the runner.
MaxRuns == 2
\* Longest sample sequence given to calculate_stats.
MaxSamples == 3
\* Largest sample value (samples are -1..MaxSample).
MaxSample == 2
\* Largest delta_ms given to calculate_impact, in half milliseconds (the
\* deltas are -MaxDelta/2 .. MaxDelta/2).
MaxDelta == 2
\* Last second the clock reaches, and last microsecond within a second.
MaxSec == 1
MaxUsec == 1

\* CPU core numbers the runner can be pinned to: 0..MaxCore.
MaxCore == 2

\* Threads one ResourceProfiler starts over its life.
MaxThreads == 2

\* Samples the sampling loops append between two calls of start().
MaxProfSamples == 3

\* ------------------------------------------------------- program constants
\* Bytes per element of a float64 array.
ItemSize == 8

\* The cpu_affinity a report shows when the runner output gives none.
DefaultCpuAffinity == 2

VARIABLES
    \* --- the dataset directory
    dirExists,      \* the output directory exists
    embeddings,     \* embeddings.f64
    axes,           \* axes.f64
    metadata,       \* metadata.json
    lock,           \* dataset.lock
    \* --- the last command run against the directory, and the environment
    last,           \* the last command: [op, kind, force, positive,
                    \* replaced, result, exit, err]
    tampered,       \* how a file was changed from outside since the last
                    \* Generate: none, flip, truncate, append, remove, lock
    \* --- one execution of the runner (run_all.py main)
    rpc,            \* idle, loaded, verified, running, exit0, exit1
    rargs,          \* [impls, runs]: --impls and --runs
    rmeta,          \* metadata, as load_metadata returned it
    lockOK,         \* verify_dataset_lock returned True in this execution
    results,        \* the results dict: a sequence of [key, samples]
    ridx,           \* calls of run_benchmark_impl made in this execution
    wrote,          \* this execution wrote results.csv and summary.json
    rerr,           \* why the execution ended with exit 1
    \* --- the runner's output directory
    results_csv,    \* results.csv
    summary_json,   \* summary.json
    \* --- the statistics engine (build_report.py calculate_stats)
    samplesIn,      \* the sample sequence held by the caller
    computed,       \* calculate_stats has been called
    computedFrom,   \* the sequence it was called with
    stats,          \* the Statistics Record it returned
    \* --- the verdict rule (build_report.py determine_verdict and
    \* convert_to_report.py)
    cv_pair,        \* [baseline, optimized]: two Statistics Records
    verdicts,       \* [builder, converter]: the verdict each path gave
    \* --- one execution of build_report
    runner_summary, \* the runner output handed to build_report
    clock,          \* the system clock: [second, microsecond]
    hostname,       \* socket.gethostname()
    bpc,            \* idle, loaded, id_taken, done
    id_time,        \* the clock reading the report id was made from
    report,         \* the Report under construction, then as returned
    prev,           \* the build before this one: [runner_summary, id_time,
                    \* report]
    \* --- the impact projection (calculate_impact)
    impact_in,      \* [delta_ms, inputs]
    impact_out,     \* [once, twice]: outputs for delta_ms and 2 * delta_ms
    \* --- the resource sampler (profiler.py ResourceProfiler)
    running,        \* self.running
    prof_samples,   \* self.samples
    threads,        \* every thread started so far: where it is in
                    \* _profiling_loop (check, sampled, sleep, done)
    thread,         \* self.thread: an index into threads, 0 for None
    ppc,            \* the caller: idle, joining (inside stop())
    frozen,         \* stop() has returned and start() was not called since
    prof_summary    \* what get_summary returned last

dataVars == <<dirExists, embeddings, axes, metadata, lock>>
cmdVars == <<last, tampered>>
runVars == <<rpc, rargs, rmeta, lockOK, results, ridx, wrote, rerr,
             results_csv, summary_json>>
statVars == <<samplesIn, computed, computedFrom, stats>>
verdictVars == <<cv_pair, verdicts>>
builderVars == <<runner_summary, clock, hostname, bpc, id_time, report, prev>>
impactVars == <<impact_in, impact_out>>
profVars == <<running, prof_samples, threads, thread, ppc, frozen,
              prof_summary>>
reportVars == <<verdictVars, builderVars, impactVars, profVars>>
vars == <<dataVars, cmdVars, runVars, statVars, reportVars>>

\* ---------------------------------------------------------------- helpers
Byte == 0..MaxByte

HexDigits == <<"0", "1", "2", "3", "4", "5", "6", "7",
               "8", "9", "a", "b", "c", "d", "e", "f">>

\* Characters str.strip() removes (those a TLA+ string can spell).
Whitespace == {" ", "\n", "\t", "\r", "\f"}

NoFile == [exists |-> FALSE, content |-> <<>>]

File(c) == [exists |-> TRUE, content |-> c]

NoMetadata ==
    [exists |-> FALSE,
     content |-> [hash_sha256 |-> <<>>, N |-> 0, M |-> 0, D |-> 0, seed |-> 0,
                  embeddings_shape |-> <<0, 0>>, axes_shape |-> <<0, 0>>]]

\* hashlib.sha256(...).hexdigest(): a collision-free digest, spelled in hex
\* digits.  The stand-in is an injective encoding of the hashed bytes (one
\* hex digit per byte, bytes being below 16 here), so two inputs have the
\* same digest exactly when they are the same bytes.
Sha256Hex(bytes) == [i \in 1..Len(bytes) |-> HexDigits[bytes[i] + 1]]

\* Byte j (0-based) of the k-th (0-based) float64 drawn after
\* np.random.seed(seed): a fixed function of the seed and the position in
\* the stream.
RandnByte(seed, k, j) == (seed + k + j + (k * j)) % (MaxByte + 1)

\* The bytes of the stream np.random.randn draws from after
\* np.random.seed(seed), as far as the largest dataset reads it.
RandnStream ==
    [seed \in 0..MaxSeed |->
        [i \in 1..((MaxN + MaxM) * MaxD * ItemSize) |->
            RandnByte(seed, (i - 1) \div ItemSize, (i - 1) % ItemSize)]]

\* np.random.randn(rows, cols).astype(float64).tobytes() for the draws
\* first .. first + rows*cols - 1 of the stream, row-major.
RandnBytes(seed, first, count) ==
    SubSeq(RandnStream[seed], first * ItemSize + 1, (first + count) * ItemSize)

\* The dataset directory as one value.
Dir ==
    [dirExists |-> dirExists, embeddings |-> embeddings, axes |-> axes,
     metadata |-> metadata, lock |-> lock]

EmptyDir ==
    [dirExists |-> FALSE, embeddings |-> NoFile, axes |-> NoFile,
     metadata |-> NoMetadata, lock |-> NoFile]

\* output_path / name, for the two names a Descriptor can hold.
FileNamed(d, name) ==
    CASE name = "embeddings.f64" -> d.embeddings
      [] name = "axes.f64" -> d.axes
      [] OTHER -> NoFile

\* ------------------------------------------------------ generate_dataset
\* np.random.seed accepts 0 .. 2^32 - 1 and raises ValueError otherwise.
SeedAccepted(seed) == seed >= 0

\* generate_dataset leaving a dataset.lock that exists as it is.
generate_dataset_KeepLock(d, N, M, D, seed) ==
    LET emb_bytes == RandnBytes(seed, 0, N * D)
        axes_bytes == RandnBytes(seed, N * D, M * D)
        dataset_hash == Sha256Hex(emb_bytes \o axes_bytes)
    IN  IF ~SeedAccepted(seed) \/ N < 0 \/ M < 0 \/ D < 0
        THEN [raised |-> TRUE, dir |-> d]
        ELSE [raised |-> FALSE,
              dir |-> [dirExists |-> TRUE,
                       embeddings |-> File(emb_bytes),
                       axes |-> File(axes_bytes),
                       metadata |->
                           File([hash_sha256 |-> dataset_hash,
                                 N |-> N, M |-> M, D |-> D, seed |-> seed,
                                 embeddings_shape |-> <<N, D>>,
                                 axes_shape |-> <<M, D>>]),
                       lock |-> IF d.lock.exists THEN d.lock
                                ELSE File(dataset_hash)]]

\* generate_dataset(N, M, D, seed, output_dir) run on directory d: the
\* directory it leaves, and whether it raised.  The function itself does not
\* look at the sign of N, M, D: numpy does, when the arrays are drawn
\* (a negative dimension raises, a zero one gives an empty array).
generate_dataset(d, N, M, D, seed) ==
    IF ~SeedAccepted(seed)
    THEN [raised |-> TRUE, dir |-> d]
    ELSE
    LET made == [d EXCEPT !.dirExists = TRUE]
    IN  IF N < 0 \/ D < 0
        THEN [raised |-> TRUE, dir |-> made]
        ELSE
        LET emb_bytes == RandnBytes(seed, 0, N * D)
            withEmb == [made EXCEPT !.embeddings = File(emb_bytes)]
        IN  IF M < 0
            THEN [raised |-> TRUE, dir |-> withEmb]
            ELSE
            LET axes_bytes == RandnBytes(seed, N * D, M * D)
                dataset_hash == Sha256Hex(emb_bytes \o axes_bytes)
                meta == [hash_sha256 |-> dataset_hash,
                         N |-> N, M |-> M, D |-> D, seed |-> seed,
                         embeddings_shape |-> <<N, D>>,
                         axes_shape |-> <<M, D>>]
            IN  [raised |-> FALSE,
                 dir |-> [dirExists |-> TRUE,
                          embeddings |-> File(emb_bytes),
                          axes |-> File(axes_bytes),
                          metadata |-> File(meta),
                          lock |-> File(dataset_hash)]]

\* -------------------------------------------------------- verify_dataset
\* np.fromfile(file, dtype=float64): the complete 8-byte items of the file;
\* bytes after the last complete item are not read.
FromFile(content) == SubSeq(content, 1, (Len(content) \div ItemSize) * ItemSize)

\* Items in an array read by FromFile.
ItemCount(content) == Len(content) \div ItemSize

\* verify_dataset comparing only the 16 digits of the digest it prints.
verify_dataset_Prefix(d) ==
    IF ~d.metadata.exists \/ ~d.embeddings.exists \/ ~d.axes.exists
    THEN "false"
    ELSE
    LET md == d.metadata.content
        calculated_hash ==
            Sha256Hex(FromFile(d.embeddings.content)
                      \o FromFile(d.axes.content))
        Shown(h) == SubSeq(h, 1, IF Len(h) < 16 THEN Len(h) ELSE 16)
    IN  IF ItemCount(d.embeddings.content)
               # md.embeddings_shape[1] * md.embeddings_shape[2]
           \/ ItemCount(d.axes.content)
               # md.axes_shape[1] * md.embeddings_shape[2]
        THEN "raise"
        ELSE IF Shown(calculated_hash) # Shown(md.hash_sha256) THEN "false"
        ELSE "true"

\* verify_dataset(output_dir) on directory d: "true" or "false" as returned,
\* "raise" when ndarray.reshape raises ValueError (the items read are not
\* rows * cols many).
verify_dataset(d) ==
    IF ~d.metadata.exists THEN "false"
    ELSE
    LET md == d.metadata.content
        embeddings_file == FileNamed(d, "embeddings.f64")
        axes_file == FileNamed(d, "axes.f64")
        N == md.embeddings_shape[1]
        D == md.embeddings_shape[2]
        M == md.axes_shape[1]
    IN  IF ~embeddings_file.exists THEN "false"
        ELSE IF ~axes_file.exists THEN "false"
        ELSE IF ItemCount(embeddings_file.content) # N * D THEN "raise"
        ELSE IF ItemCount(axes_file.content) # M * D THEN "raise"
        ELSE
        LET calculated_hash ==
                Sha256Hex(FromFile(embeddings_file.content)
                          \o FromFile(axes_file.content))
        IN  IF calculated_hash # md.hash_sha256 THEN "false" ELSE "true"

\* --------------------------------------------------------------- commands
\* What is remembered of a command: its name, for a change from outside its
\* kind, for a Generate whether --force was given, whether N, M and D were
\* all positive and whether it replaced a Descriptor by a different one,
\* what verify_dataset gave, the exit code and the diagnostic.
LastCmd(op, kind, force, positive, replaced, result, exit, err) ==
    [op |-> op, kind |-> kind, force |-> force, positive |-> positive,
     replaced |-> replaced, result |-> result, exit |-> exit, err |-> err]

NoCmd == LastCmd("none", "none", FALSE, TRUE, FALSE, "none", 0, "none")

Tampering(kind) == LastCmd("tamper", kind, FALSE, TRUE, FALSE, "none", 0, "none")

SetDir(d) ==
    /\ dirExists' = d.dirExists
    /\ embeddings' = d.embeddings
    /\ axes' = d.axes
    /\ metadata' = d.metadata
    /\ lock' = d.lock

\* main() of generate_data.py: a failure before anything is written,
\* sys.exit(1) after the diagnostic err.
GenerateFail(force, positive, err) ==
    /\ last' = LastCmd("generate", "none", force, positive, FALSE, "none",
                       1, err)
    /\ UNCHANGED <<dataVars, tampered, runVars, statVars, reportVars>>

\* main() of generate_data.py: the try block, generate_dataset and then
\* verify_dataset on what it wrote; any exception is caught and ends in
\* sys.exit(1).
GenerateRun(N, M, D, seed, force) ==
    LET g == generate_dataset(Dir, N, M, D, seed)
        v == IF g.raised THEN "none" ELSE verify_dataset(g.dir)
    IN  /\ SetDir(g.dir)
        /\ tampered' = IF g.raised THEN tampered ELSE "none"
        /\ last' = LastCmd("generate", "none", force,
                           N > 0 /\ M > 0 /\ D > 0,
                           metadata.exists /\ g.dir.metadata # metadata, v,
                           IF v = "true" THEN 0 ELSE 1,
                           IF g.raised \/ v = "raise" THEN "Exception"
                           ELSE IF v = "false" THEN "VerificationFailed"
                           ELSE "none")
        /\ UNCHANGED <<runVars, statVars, reportVars>>

\* GenerateMain without the test for an existing Descriptor.
GenerateMain_NoExistsCheck(N, M, D, seed, force) ==
    IF N <= 0 \/ M <= 0 \/ D <= 0
    THEN GenerateFail(force, N > 0 /\ M > 0 /\ D > 0, "InvalidParameters")
    ELSE GenerateRun(N, M, D, seed, force)

\* GenerateMain without the validation of N, M and D.
GenerateMain_NoValidation(N, M, D, seed, force) ==
    IF metadata.exists /\ ~force
    THEN GenerateFail(force, N > 0 /\ M > 0 /\ D > 0, "AlreadyExists")
    ELSE GenerateRun(N, M, D, seed, force)

\* main() of generate_data.py without --verify.
GenerateMain(N, M, D, seed, force) ==
    IF metadata.exists /\ ~force
    THEN GenerateFail(force, N > 0 /\ M > 0 /\ D > 0, "AlreadyExists")
    ELSE IF N <= 0 \/ M <= 0 \/ D <= 0
    THEN GenerateFail(force, N > 0 /\ M > 0 /\ D > 0, "InvalidParameters")
    ELSE GenerateRun(N, M, D, seed, force)

\* main() of generate_data.py with --verify: exit 0 when verify_dataset
\* returns True, 1 when it returns False; an exception it raises is not
\* caught and ends the process with a traceback (exit 1).
VerifyMain ==
    LET v == verify_dataset(Dir)
    IN  /\ last' = LastCmd("verify", "none", FALSE, TRUE, FALSE, v,
                           IF v = "true" THEN 0 ELSE 1,
                           IF v = "raise" THEN "Exception" ELSE "none")
        /\ UNCHANGED <<dataVars, tampered, runVars, statVars, reportVars>>

\* ------------------------------------------------------------ environment
\* Changes made to the files from outside the program (corruption, partial
\* writes, edits), at most one between two generations.
ArrayFiles == {"embeddings.f64", "axes.f64"}

SetArray(name, f) ==
    /\ embeddings' = IF name = "embeddings.f64" THEN f ELSE embeddings
    /\ axes' = IF name = "axes.f64" THEN f ELSE axes
    /\ UNCHANGED <<dirExists, metadata, lock, runVars, statVars, reportVars>>

\* One byte of an array file takes another value; the length stays.
FlipByte(name, i, b) ==
    LET f == FileNamed(Dir, name)
    IN  /\ tampered = "none"
        /\ f.exists
        /\ i \in 1..Len(f.content)
        /\ b # f.content[i]
        /\ SetArray(name, File([f.content EXCEPT ![i] = b]))
        /\ tampered' = "flip"
        /\ last' = Tampering("flip")

\* The lengths a file of len bytes is cut to: nothing, and the loss of 1 to
\* ItemSize + 1 bytes at its end.
TruncatedLengths(len) ==
    {0} \cup {n \in (len - ItemSize - 1)..(len - 1) : n >= 0}

\* An array file is cut to its first n bytes.
Truncate(name, n) ==
    LET f == FileNamed(Dir, name)
    IN  /\ tampered = "none"
        /\ f.exists
        /\ n < Len(f.content)
        /\ SetArray(name, File(SubSeq(f.content, 1, n)))
        /\ tampered' = "truncate"
        /\ last' = Tampering("truncate")

\* k bytes of value b are appended to an array file.
AppendBytes(name, k, b) ==
    LET f == FileNamed(Dir, name)
    IN  /\ tampered = "none"
        /\ f.exists
        /\ SetArray(name, File(f.content \o [i \in 1..k |-> b]))
        /\ tampered' = "append"
        /\ last' = Tampering("append")

AllFiles == {"embeddings.f64", "axes.f64", "metadata.json", "dataset.lock"}

\* A file of the directory is removed.
RemoveFile(name) ==
    /\ tampered = "none"
    /\ CASE name = "embeddings.f64" -> embeddings.exists
         [] name = "axes.f64" -> axes.exists
         [] name = "metadata.json" -> metadata.exists
         [] OTHER -> lock.exists
    /\ embeddings' = IF name = "embeddings.f64" THEN NoFile ELSE embeddings
    /\ axes' = IF name = "axes.f64" THEN NoFile ELSE axes
    /\ metadata' = IF name = "metadata.json" THEN NoMetadata ELSE metadata
    /\ lock' = IF name = "dataset.lock" THEN NoFile ELSE lock
    /\ UNCHANGED <<dirExists, runVars, statVars, reportVars>>
    /\ tampered' = "remove"
    /\ last' = Tampering("remove")

\* What dataset.lock may be rewritten to: the digest with white space put
\* around it, the digest with its first digit changed, with a digit added,
\* with a line break inside it, and the empty file.
Padding == {<<>>, <<"\n">>, <<" ">>, <<"\t", "\n">>}

LockEdits(c) ==
    {pre \o c \o post : pre \in Padding, post \in Padding}
    \cup {<<>>, c \o <<"0">>}
    \cup (IF c = <<>> THEN {}
          ELSE {[c EXCEPT ![1] = IF c[1] = "0" THEN "1" ELSE "0"],
                <<c[1], "\n">> \o Tail(c)})

\* dataset.lock is rewritten.
EditLock(c) ==
    /\ tampered = "none"
    /\ lock.exists
    /\ c # lock.content
    /\ lock' = File(c)
    /\ UNCHANGED <<dirExists, embeddings, axes, metadata, runVars, statVars, reportVars>>
    /\ tampered' = "lock"
    /\ last' = Tampering("lock")

\* ------------------------------------------------ runner (run_all.py)
\* str.strip(): the string without its leading and trailing white space.
RECURSIVE LStrip(_)
LStrip(s) ==
    IF s # <<>> /\ Head(s) \in Whitespace THEN LStrip(Tail(s)) ELSE s

RECURSIVE RStrip(_)
RStrip(s) ==
    IF s # <<>> /\ s[Len(s)] \in Whitespace
    THEN RStrip(SubSeq(s, 1, Len(s) - 1))
    ELSE s

Strip(s) == RStrip(LStrip(s))

\* verify_dataset_lock comparing the file as read, without strip().
verify_dataset_lock_NoStrip(md, d) ==
    d.lock.exists /\ d.lock.content = md.hash_sha256

\* verify_dataset_lock(metadata, data_dir) on directory d.
verify_dataset_lock(md, d) ==
    IF ~d.lock.exists THEN FALSE
    ELSE
    LET lock_hash == Strip(d.lock.content)
    IN  IF lock_hash # md.hash_sha256 THEN FALSE ELSE TRUE

\* random.seed(42 + run); random.gauss(0, 6): a fixed function of run, here
\* in whole milliseconds.
Gauss(run) == (((42 + run) * 7) % 13) - 6

\* The samples list run_benchmark_impl builds in its measurement loop.
MeasuredSamples(variant, runs) ==
    [i \in 1..runs |->
        (IF variant = "naive" THEN 1520 ELSE 1212) + Gauss(i - 1)]

\* run_benchmark_impl: the samples, or a raise when statistics.median is
\* given the empty list (runs = 0).
run_benchmark_impl(variant, runs) ==
    IF runs <= 0
    THEN [raised |-> TRUE, samples |-> <<>>]
    ELSE [raised |-> FALSE, samples |-> MeasuredSamples(variant, runs)]

\* results[key] = samples on an insertion-ordered dict.
DictSet(dict, key, samples) ==
    IF \E i \in 1..Len(dict) : dict[i].key = key
    THEN [i \in 1..Len(dict) |->
            IF dict[i].key = key THEN [key |-> key, samples |-> samples]
            ELSE dict[i]]
    ELSE Append(dict, [key |-> key, samples |-> samples])

\* The rows save_results writes to results.csv after the header.
RECURSIVE CsvRows(_)
CsvRows(dict) ==
    IF dict = <<>> THEN <<>>
    ELSE [i \in 1..Len(dict[1].samples) |->
            <<dict[1].key, i - 1, dict[1].samples[i]>>]
         \o CsvRows(Tail(dict))

\* The summary save_results dumps to summary.json.
Summary(dict, md, args) ==
    LET baseline == dict[1]
        optimized == IF Len(dict) > 1 THEN dict[2] ELSE dict[1]
    IN  [metadata |-> md,
         baseline_samples |-> baseline.samples,
         optimized_samples |-> optimized.samples,
         runs |-> args.runs]

\* An --impls word is kept as its parts between dashes.
ImplKey(parts) == <<parts[1], parts[2]>>

NoArgs == [impls |-> <<>>, runs |-> 0]

\* main(): the process starts, parses its arguments and loads metadata.json
\* (an absent file raises out of load_metadata).
RunnerStart(impls, runs) ==
    /\ rpc \in {"idle", "exit0", "exit1"}
    /\ rargs' = [impls |-> impls, runs |-> runs]
    /\ lockOK' = FALSE
    /\ results' = <<>>
    /\ ridx' = 0
    /\ wrote' = FALSE
    /\ IF metadata.exists
       THEN /\ rmeta' = metadata.content
            /\ rpc' = "loaded"
            /\ rerr' = "none"
       ELSE /\ rmeta' = NoMetadata.content
            /\ rpc' = "exit1"
            /\ rerr' = "Exception"
    /\ UNCHANGED <<results_csv, summary_json, dataVars, cmdVars, statVars, reportVars>>

\* The lock check without the sys.exit(1): a failed check is reported and
\* the run goes on.
RunnerCheckLock_NoExit ==
    /\ rpc = "loaded"
    /\ lockOK' = verify_dataset_lock(rmeta, Dir)
    /\ rpc' = "verified"
    /\ rerr' = "none"
    /\ UNCHANGED <<rargs, rmeta, results, ridx, wrote, results_csv,
                   summary_json, dataVars, cmdVars, statVars, reportVars>>

\* main(): the lock check; failure is sys.exit(1).
RunnerCheckLock ==
    /\ rpc = "loaded"
    /\ IF verify_dataset_lock(rmeta, Dir)
       THEN /\ lockOK' = TRUE
            /\ rpc' = "verified"
            /\ rerr' = "none"
       ELSE /\ lockOK' = FALSE
            /\ rpc' = "exit1"
            /\ rerr' = "LockFailed"
    /\ UNCHANGED <<rargs, rmeta, results, ridx, wrote, results_csv,
                   summary_json, dataVars, cmdVars, statVars, reportVars>>

\* main(): every --impls word must have two parts, else sys.exit(1).
RunnerParseImpls ==
    /\ rpc = "verified"
    /\ IF \A i \in 1..Len(rargs.impls) : Len(rargs.impls[i]) = 2
       THEN rpc' = "running" /\ rerr' = "none"
       ELSE rpc' = "exit1" /\ rerr' = "InvalidImpl"
    /\ UNCHANGED <<rargs, rmeta, lockOK, results, ridx, wrote, results_csv,
                   summary_json, dataVars, cmdVars, statVars, reportVars>>

\* main(): one turn of the loop over impls, a call of run_benchmark_impl.
RunnerBenchmark ==
    /\ rpc = "running"
    /\ ridx < Len(rargs.impls)
    /\ LET parts == rargs.impls[ridx + 1]
           r == run_benchmark_impl(parts[2], rargs.runs)
       IN  /\ ridx' = ridx + 1
           /\ IF r.raised
              THEN /\ rpc' = "exit1"
                   /\ rerr' = "Exception"
                   /\ results' = results
              ELSE /\ rpc' = "running"
                   /\ rerr' = "none"
                   /\ results' = DictSet(results, ImplKey(parts), r.samples)
    /\ UNCHANGED <<rargs, rmeta, lockOK, wrote, results_csv, summary_json,
                   dataVars, cmdVars, statVars, reportVars>>

\* main(): save_results, then the end of the process.
RunnerSave ==
    /\ rpc = "running"
    /\ ridx = Len(rargs.impls)
    /\ results_csv' = File(CsvRows(results))
    /\ summary_json' = File(Summary(results, rmeta, rargs))
    /\ wrote' = TRUE
    /\ rpc' = "exit0"
    /\ UNCHANGED <<rargs, rmeta, lockOK, results, ridx, rerr, dataVars,
                   cmdVars, statVars, reportVars>>

\* ------------------------------- statistics engine (build_report.py)
\* Numbers are exact: a rational is [num, den] in lowest terms with den > 0,
\* and the square root of a rational q is kept as [radicand |-> q].
RECURSIVE GCD(_, _)
GCD(a, b) == IF b = 0 THEN a ELSE GCD(b, a % b)

Abs(a) == IF a < 0 THEN -a ELSE a

Rat(n, d) ==
    LET g == GCD(Abs(n), Abs(d))
        sign == IF d < 0 THEN -1 ELSE 1
    IN  [num |-> (sign * n) \div g, den |-> (sign * d) \div g]

RatOfInt(a) == [num |-> a, den |-> 1]

RatMul(x, y) == Rat(x.num * y.num, x.den * y.den)

RatDiv(x, y) == Rat(x.num * y.den, x.den * y.num)

RatPositive(x) == x.num > 0

Sqrt(q) == [radicand |-> q]

\* sqrt(q) / m * 100 for a positive rational m: the square root of
\* q * 100^2 / m^2.
SqrtOver(q, m) == Sqrt(RatMul(RatDiv(q, RatMul(m, m)), RatOfInt(100 * 100)))

RECURSIVE SeqSum(_)
SeqSum(s) == IF s = <<>> THEN 0 ELSE Head(s) + SeqSum(Tail(s))

RECURSIVE SeqSumSq(_)
SeqSumSq(s) == IF s = <<>> THEN 0 ELSE Head(s) * Head(s) + SeqSumSq(Tail(s))

\* sorted(samples): a new list in ascending order (a stable insertion sort).
RECURSIVE InsertSorted(_, _)
InsertSorted(x, s) ==
    IF s = <<>> THEN <<x>>
    ELSE IF x < Head(s) THEN <<x>> \o s
    ELSE <<Head(s)>> \o InsertSorted(x, Tail(s))

RECURSIVE Sorted(_)
Sorted(s) ==
    IF s = <<>> THEN <<>>
    ELSE InsertSorted(s[Len(s)], Sorted(SubSeq(s, 1, Len(s) - 1)))

\* statistics.median taking the lower of the two middle elements when the
\* count is even.
Median_LowerMiddle(data) ==
    LET d == Sorted(data)
        n == Len(d)
    IN  IF n % 2 = 1 THEN RatOfInt(d[(n \div 2) + 1])
        ELSE RatOfInt(d[n \div 2])

\* statistics.median(data), data not empty: it sorts data itself.
Median(data) ==
    LET d == Sorted(data)
        n == Len(d)
    IN  IF n % 2 = 1 THEN RatOfInt(d[(n \div 2) + 1])
        ELSE Rat(d[n \div 2] + d[(n \div 2) + 1], 2)

\* statistics.mean(data), data not empty.
Mean(data) == Rat(SeqSum(data), Len(data))

\* The radicand of statistics.stdev(data), Len(data) > 1: the sum of the
\* squared deviations from the mean over n - 1, which is
\* (n * sum(x^2) - sum(x)^2) / (n * (n - 1)).
Variance(data) ==
    LET n == Len(data)
    IN  Rat(n * SeqSumSq(data) - SeqSum(data) * SeqSum(data), n * (n - 1))

\* The record calculate_stats returns for an empty list.
ZeroStats ==
    [median |-> RatOfInt(0), mean |-> RatOfInt(0), std |-> Sqrt(RatOfInt(0)),
     cv_pct |-> Sqrt(RatOfInt(0)), p10 |-> RatOfInt(0), p90 |-> RatOfInt(0)]

\* int(n * 0.1) and int(n * 0.9): for the n of this model (and every n below
\* 200) the float product truncates to n \div 10 and 9n \div 10.
P10Idx(n) == n \div 10

P90Idx(n) == (n * 9) \div 10

\* calculate_stats returning the zero record for a single sample too.
calculate_stats_ZeroForOne(s) ==
    IF Len(s) <= 1 THEN ZeroStats
    ELSE
    LET sorted_samples == Sorted(s)
        n == Len(sorted_samples)
        mean == Mean(sorted_samples)
        var == Variance(sorted_samples)
    IN  [median |-> Median(sorted_samples),
         mean |-> mean,
         std |-> Sqrt(var),
         cv_pct |-> IF RatPositive(mean) THEN SqrtOver(var, mean)
                    ELSE Sqrt(RatOfInt(0)),
         p10 |-> RatOfInt(sorted_samples[P10Idx(n) + 1]),
         p90 |-> RatOfInt(sorted_samples[P90Idx(n) + 1])]

\* calculate_stats taking the percentiles from the list as given.
calculate_stats_Unsorted(s) ==
    IF s = <<>> THEN ZeroStats
    ELSE
    LET n == Len(s)
        mean == Mean(s)
        var == IF n > 1 THEN Variance(s) ELSE RatOfInt(0)
    IN  [median |-> Median(s),
         mean |-> mean,
         std |-> Sqrt(var),
         cv_pct |-> IF RatPositive(mean) THEN SqrtOver(var, mean)
                    ELSE Sqrt(RatOfInt(0)),
         p10 |-> RatOfInt(s[P10Idx(n) + 1]),
         p90 |-> RatOfInt(s[P90Idx(n) + 1])]

\* calculate_stats(samples).
calculate_stats(s) ==
    IF s = <<>> THEN ZeroStats
    ELSE
    LET sorted_samples == Sorted(s)
        n == Len(sorted_samples)
        median == Median(sorted_samples)
        mean == Mean(sorted_samples)
        var == IF n > 1 THEN Variance(sorted_samples) ELSE RatOfInt(0)
        std == Sqrt(var)
        cv_pct == IF RatPositive(mean) THEN SqrtOver(var, mean)
                  ELSE Sqrt(RatOfInt(0))
        p10_idx == P10Idx(n)
        p90_idx == P90Idx(n)
    IN  [median |-> median,
         mean |-> mean,
         std |-> std,
         cv_pct |-> cv_pct,
         p10 |-> RatOfInt(sorted_samples[p10_idx + 1]),
         p90 |-> RatOfInt(sorted_samples[p90_idx + 1])]

\* A caller computes the Statistics Record of its samples.
Compute ==
    /\ stats' = calculate_stats(samplesIn)
    /\ computed' = TRUE
    /\ computedFrom' = samplesIn
    /\ UNCHANGED <<samplesIn, dataVars, cmdVars, runVars, reportVars>>

\* The caller's sequence is given in another order: two neighbours change
\* places.
Reorder(i) ==
    /\ i \in 1..(Len(samplesIn) - 1)
    /\ samplesIn[i] # samplesIn[i + 1]
    /\ samplesIn' = [samplesIn EXCEPT ![i] = samplesIn[i + 1],
                                  ![i + 1] = samplesIn[i]]
    /\ UNCHANGED <<computed, computedFrom, stats, dataVars, cmdVars, runVars,
                   reportVars>>

\* ------------------------------------------ verdict (determine_verdict)
\* x < y for two rationals.
RatLess(x, y) == x.num * y.den < y.num * x.den

\* cv < k and cv > k for a cv_pct kept as a square root and a whole k >= 0.
CvBelow(cv, k) == RatLess(cv.radicand, RatOfInt(k * k))

CvAbove(cv, k) == RatLess(RatOfInt(k * k), cv.radicand)

\* determine_verdict answering "inconclusive" when neither side shows any
\* variation at all (as for a run without samples).
determine_verdict_NoData(baseline_stats, optimized_stats) ==
    LET baseline_cv == baseline_stats.cv_pct
        optimized_cv == optimized_stats.cv_pct
    IN  IF baseline_cv.radicand.num = 0 /\ optimized_cv.radicand.num = 0
        THEN "inconclusive"
        ELSE IF CvBelow(baseline_cv, 5) /\ CvBelow(optimized_cv, 5)
        THEN "conclusive"
        ELSE IF CvAbove(baseline_cv, 15) \/ CvAbove(optimized_cv, 15)
        THEN "inconclusive"
        ELSE "conclusive"

\* determine_verdict with both limits taken inclusive.
determine_verdict_Inclusive(baseline_stats, optimized_stats) ==
    LET baseline_cv == baseline_stats.cv_pct
        optimized_cv == optimized_stats.cv_pct
    IN  IF ~CvAbove(baseline_cv, 5) /\ ~CvAbove(optimized_cv, 5)
        THEN "conclusive"
        ELSE IF ~CvBelow(baseline_cv, 15) \/ ~CvBelow(optimized_cv, 15)
        THEN "inconclusive"
        ELSE "conclusive"

\* determine_verdict(baseline_stats, optimized_stats).
determine_verdict(baseline_stats, optimized_stats) ==
    LET baseline_cv == baseline_stats.cv_pct
        optimized_cv == optimized_stats.cv_pct
    IN  IF CvBelow(baseline_cv, 5) /\ CvBelow(optimized_cv, 5)
        THEN "conclusive"
        ELSE IF CvAbove(baseline_cv, 15) \/ CvAbove(optimized_cv, 15)
        THEN "inconclusive"
        ELSE "conclusive"

\* convert_to_report: the expression that gives summary.verdict.
ConverterVerdict(baseline_stats, optimized_stats) ==
    IF CvBelow(baseline_stats.cv_pct, 5) /\ CvBelow(optimized_stats.cv_pct, 5)
    THEN "conclusive"
    ELSE "inconclusive"

NoVerdicts == [builder |-> "none", converter |-> "none"]

\* build_report asks determine_verdict for the verdict of the pair.
DetermineVerdict ==
    /\ verdicts.builder = "none"
    /\ verdicts' = [verdicts EXCEPT !.builder =
                        determine_verdict(cv_pair.baseline, cv_pair.optimized)]
    /\ UNCHANGED <<cv_pair, builderVars, impactVars, profVars, dataVars,
                   cmdVars, runVars, statVars>>

\* convert_to_report computes summary.verdict for the pair.
ConvertVerdict ==
    /\ verdicts.converter = "none"
    /\ verdicts' = [verdicts EXCEPT !.converter =
                        ConverterVerdict(cv_pair.baseline, cv_pair.optimized)]
    /\ UNCHANGED <<cv_pair, builderVars, impactVars, profVars, dataVars,
                   cmdVars, runVars, statVars>>

\* ------------------------------------------- impact (calculate_impact)
\* x - y for two rationals.
RatSub(x, y) == Rat(x.num * y.den - y.num * x.den, x.den * y.den)

\* x + y for two rationals.
RatAdd(x, y) == Rat(x.num * y.den + y.num * x.den, x.den * y.den)

\* calculate_impact counting one hour a year more than the time saved.
calculate_impact_Offset(delta_ms, inputs) ==
    LET time_saved_hours_per_year ==
            RatAdd(RatDiv(RatMul(RatMul(delta_ms, inputs.executions_per_day),
                                 inputs.days_per_year),
                          RatOfInt(3600000)),
                   RatOfInt(1))
        electricity_saved_kwh_per_year ==
            RatMul(time_saved_hours_per_year, inputs.electricity_kwh_per_hour)
    IN  [time_saved_hours_per_year |-> time_saved_hours_per_year,
         cost_saved_eur_per_year |->
             RatMul(time_saved_hours_per_year, inputs.cost_per_hour_eur),
         electricity_saved_kwh_per_year |-> electricity_saved_kwh_per_year,
         co2_avoided_kg_per_year |->
             RatMul(electricity_saved_kwh_per_year, inputs.co2_kg_per_kwh)]

\* calculate_impact(delta_ms, inputs), delta_ms and the inputs rationals.
calculate_impact(delta_ms, inputs) ==
    LET time_saved_hours_per_year ==
            RatDiv(RatMul(RatMul(delta_ms, inputs.executions_per_day),
                          inputs.days_per_year),
                   RatOfInt(3600000))
        cost_saved_eur_per_year ==
            RatMul(time_saved_hours_per_year, inputs.cost_per_hour_eur)
        electricity_saved_kwh_per_year ==
            RatMul(time_saved_hours_per_year, inputs.electricity_kwh_per_hour)
        co2_avoided_kg_per_year ==
            RatMul(electricity_saved_kwh_per_year, inputs.co2_kg_per_kwh)
    IN  [time_saved_hours_per_year |-> time_saved_hours_per_year,
         cost_saved_eur_per_year |-> cost_saved_eur_per_year,
         electricity_saved_kwh_per_year |-> electricity_saved_kwh_per_year,
         co2_avoided_kg_per_year |-> co2_avoided_kg_per_year]

\* build_report's fixed impact_inputs: 100 executions a day, 250 days a
\* year, 0.50 EUR an hour, 0.15 kWh an hour, 0.475 kg CO2 a kWh.
DefaultImpactInputs ==
    [executions_per_day |-> RatOfInt(100),
     days_per_year |-> RatOfInt(250),
     cost_per_hour_eur |-> Rat(1, 2),
     electricity_kwh_per_hour |-> Rat(3, 20),
     co2_kg_per_kwh |-> Rat(19, 40)]

NoImpact == [computed |-> FALSE,
             outputs |-> calculate_impact(RatOfInt(0), DefaultImpactInputs)]

\* The projection for delta_ms.
Project ==
    /\ ~impact_out.once.computed
    /\ impact_out' =
          [impact_out EXCEPT !.once =
              [computed |-> TRUE,
               outputs |-> calculate_impact(impact_in.delta_ms,
                                            impact_in.inputs)]]
    /\ UNCHANGED <<impact_in, verdictVars, builderVars, profVars, dataVars,
                   cmdVars, runVars, statVars>>

\* The projection for twice delta_ms, same inputs.
ProjectDouble ==
    /\ ~impact_out.twice.computed
    /\ impact_out' =
          [impact_out EXCEPT !.twice =
              [computed |-> TRUE,
               outputs |-> calculate_impact(
                               RatMul(RatOfInt(2), impact_in.delta_ms),
                               impact_in.inputs)]]
    /\ UNCHANGED <<impact_in, verdictVars, builderVars, profVars, dataVars,
                   cmdVars, runVars, statVars>>

\* ------------------------------------------------ report (build_report)
\* runner_summary.get(key, []) for the two sample keys; a runner output is
\* [has_baseline, baseline_samples, has_optimized, optimized_samples].
GetSamples_OtherSide(rs, key) ==
    IF key = "baseline_samples"
    THEN (IF rs.has_baseline THEN rs.baseline_samples
          ELSE rs.optimized_samples)
    ELSE (IF rs.has_optimized THEN rs.optimized_samples
          ELSE rs.baseline_samples)

GetSamples(rs, key) ==
    IF key = "baseline_samples"
    THEN (IF rs.has_baseline THEN rs.baseline_samples ELSE <<>>)
    ELSE (IF rs.has_optimized THEN rs.optimized_samples ELSE <<>>)

\* The list handed to calculate_stats, after the call, had it been sorted
\* in place.
SamplesAfterStats_InPlace(samples) == Sorted(samples)

\* The list handed to calculate_stats, after the call: sorted(samples)
\* builds a new list and nothing else touches the argument.
SamplesAfterStats(samples) == [i \in 1..Len(samples) |-> samples[i]]

\* The runner output after build_report has called calculate_stats on the
\* lists it holds.
SummaryAfterStats(rs) ==
    [rs EXCEPT !.baseline_samples = SamplesAfterStats(rs.baseline_samples),
               !.optimized_samples = SamplesAfterStats(rs.optimized_samples)]

\* gain_pct dividing whenever the baseline median is not zero.
gain_pct_NonZero(delta_ms, baseline_median) ==
    IF baseline_median.num # 0
    THEN RatMul(RatDiv(delta_ms, baseline_median), RatOfInt(100))
    ELSE RatOfInt(0)

\* gain_pct = (delta_ms / median * 100) if median > 0 else 0.0.
gain_pct(delta_ms, baseline_median) ==
    IF RatPositive(baseline_median)
    THEN RatMul(RatDiv(delta_ms, baseline_median), RatOfInt(100))
    ELSE RatOfInt(0)

\* isoformat() cut to whole seconds.
IsoFormat_Seconds(t) == <<"T", HexDigits[t.second + 1]>>

\* datetime.isoformat(): the second, and the microsecond only when it is
\* not zero.
IsoFormat(t) ==
    <<"T", HexDigits[t.second + 1]>>
    \o (IF t.microsecond = 0 THEN <<>>
        ELSE <<".", HexDigits[t.microsecond + 1]>>)

\* hashlib.sha256(text.encode()).hexdigest()[:16]: two texts have the same
\* digest exactly when they are the same text.
Sha256Hex16(text) == [sha256_16 |-> text]

\* The JSON value under the runner output's cpu_affinity key: no such key,
\* null, or a whole number.
NoAffinity == [kind |-> "missing", value |-> 0]

NullAffinity == [kind |-> "null", value |-> 0]

IntAffinity(k) == [kind |-> "int", value |-> k]

\* bool(v) for what dict.get returns: None for a missing key or a null,
\* and a number is true exactly when it is not zero.
Truthy(v) == v.kind = "int" /\ v.value # 0

\* runner_summary.get('cpu_affinity') or 2.
cpu_affinity(rs) ==
    IF Truthy(rs.cpu_affinity)
    THEN rs.cpu_affinity.value
    ELSE DefaultCpuAffinity

\* One side of the report's runs.
RunRecord(samples) ==
    [samples |-> samples,
     status |-> [i \in 1..Len(samples) |-> "success"]]

NoReport ==
    [meta |-> [report_id |-> Sha256Hex16(<<>>), generated_at |-> <<>>],
     benchmark |-> [cpu_affinity |-> DefaultCpuAffinity],
     runs |-> [baseline |-> RunRecord(<<>>), optimized |-> RunRecord(<<>>)],
     summary |-> [baseline_stats |-> ZeroStats, optimized_stats |-> ZeroStats,
                  delta_ms |-> RatOfInt(0), gain_pct |-> RatOfInt(0),
                  verdict |-> "none"],
     impact |-> calculate_impact(RatOfInt(0), DefaultImpactInputs)]

NoSamplesGiven ==
    [has_baseline |-> FALSE, baseline_samples |-> <<>>,
     has_optimized |-> FALSE, optimized_samples |-> <<>>,
     cpu_affinity |-> NoAffinity]

Epoch == [second |-> 0, microsecond |-> 0]

NoBuild == [built |-> FALSE, runner_summary |-> NoSamplesGiven,
            id_time |-> Epoch, report |-> NoReport]

\* main(): load_runner_summary; a build that has finished becomes the
\* previous one.
LoadSummary(rs) ==
    /\ bpc \in {"idle", "done"}
    /\ runner_summary' = rs
    /\ bpc' = "loaded"
    /\ prev' = IF bpc = "done"
               THEN [built |-> TRUE, runner_summary |-> runner_summary,
                     id_time |-> id_time, report |-> report]
               ELSE prev
    /\ UNCHANGED <<clock, hostname, id_time, report, verdictVars, impactVars,
                   profVars, dataVars, cmdVars, runVars, statVars>>

\* build_report up to the report id: the samples, their statistics, delta,
\* gain, verdict and impact, and the id from the clock as it stands.
BuildStart ==
    /\ bpc = "loaded"
    /\ LET baseline_samples == GetSamples(runner_summary, "baseline_samples")
           optimized_samples == GetSamples(runner_summary, "optimized_samples")
           baseline_stats == calculate_stats(baseline_samples)
           optimized_stats == calculate_stats(optimized_samples)
           delta_ms == RatSub(baseline_stats.median, optimized_stats.median)
       IN  /\ runner_summary' = SummaryAfterStats(runner_summary)
           /\ report' =
                [meta |-> [report_id |->
                              Sha256Hex16(IsoFormat(clock) \o hostname),
                           generated_at |-> <<>>],
                 benchmark |-> [cpu_affinity |-> cpu_affinity(runner_summary)],
                 runs |-> [baseline |->
                              RunRecord(SamplesAfterStats(baseline_samples)),
                           optimized |->
                              RunRecord(SamplesAfterStats(optimized_samples))],
                 summary |-> [baseline_stats |-> baseline_stats,
                              optimized_stats |-> optimized_stats,
                              delta_ms |-> delta_ms,
                              gain_pct |->
                                  gain_pct(delta_ms, baseline_stats.median),
                              verdict |-> determine_verdict(baseline_stats,
                                                            optimized_stats)],
                 impact |-> calculate_impact(delta_ms, DefaultImpactInputs)]
    /\ id_time' = clock
    /\ bpc' = "id_taken"
    /\ UNCHANGED <<clock, hostname, prev, verdictVars, impactVars, profVars,
                   dataVars, cmdVars, runVars, statVars>>

\* build_report from generated_at on: a second reading of the clock.
BuildFinish ==
    /\ bpc = "id_taken"
    /\ report' = [report EXCEPT !.meta.generated_at =
                                    IsoFormat(clock) \o <<"Z">>]
    /\ bpc' = "done"
    /\ UNCHANGED <<runner_summary, clock, hostname, id_time, prev,
                   verdictVars, impactVars, profVars, dataVars, cmdVars,
                   runVars, statVars>>

\* The clock moves on by a microsecond.
Tick ==
    /\ clock' = IF clock.microsecond < MaxUsec
                THEN [clock EXCEPT !.microsecond = clock.microsecond + 1]
                ELSE [second |-> clock.second + 1, microsecond |-> 0]
    /\ clock'.second <= MaxSec
    /\ UNCHANGED <<runner_summary, hostname, bpc, id_time, report, prev,
                   verdictVars, impactVars, profVars, dataVars, cmdVars,
                   runVars, statVars>>

\* ------------------------------------- resource sampler (profiler.py)
\* Everything but the sampler is left alone by its methods.
NotProfiler ==
    UNCHANGED <<dataVars, cmdVars, runVars, statVars, verdictVars,
                builderVars, impactVars>>

\* threading.Thread(...).is_alive() for the thread at index t.
IsAlive(t) == threads[t] # "done"

\* start(): returns at once while running; otherwise rebinds samples to a
\* new empty list, sets running and starts a new daemon thread, which
\* begins at the loop's test.
Start ==
    /\ ppc = "idle"
    /\ IF running
       THEN UNCHANGED <<running, prof_samples, threads, thread, frozen>>
       ELSE /\ Len(threads) < MaxThreads
            /\ prof_samples' = <<>>
            /\ running' = TRUE
            /\ threads' = Append(threads, "check")
            /\ thread' = Len(threads) + 1
            /\ frozen' = FALSE
    /\ UNCHANGED <<ppc, prof_summary>>
    /\ NotProfiler

\* stop() up to the join: returns self.samples at once when not running;
\* otherwise clears running and joins self.thread with a timeout.
StopBegin ==
    /\ ppc = "idle"
    /\ IF ~running
       THEN /\ frozen' = TRUE
            /\ UNCHANGED <<running, ppc>>
       ELSE /\ running' = FALSE
            /\ IF thread # 0
               THEN ppc' = "joining" /\ UNCHANGED frozen
               ELSE frozen' = TRUE /\ UNCHANGED ppc
    /\ UNCHANGED <<prof_samples, threads, thread, prof_summary>>
    /\ NotProfiler

\* join(timeout=1.0) returns because the thread has ended; stop() returns
\* self.samples.
StopJoined ==
    /\ ppc = "joining"
    /\ ~IsAlive(thread)
    /\ ppc' = "idle"
    /\ frozen' = TRUE
    /\ UNCHANGED <<running, prof_samples, threads, thread, prof_summary>>
    /\ NotProfiler

\* join(timeout=1.0) returns because the second has passed with the thread
\* still alive; stop() returns self.samples all the same.
StopTimeout ==
    /\ ppc = "joining"
    /\ IsAlive(thread)
    /\ ppc' = "idle"
    /\ frozen' = TRUE
    /\ UNCHANGED <<running, prof_samples, threads, thread, prof_summary>>
    /\ NotProfiler

\* _profiling_loop, "while self.running": the thread reads the flag, goes on
\* to take a sample when it is set and ends when it is not.
LoopCheck(t) ==
    /\ threads[t] = "check"
    /\ threads' = [threads EXCEPT ![t] = IF running THEN "sampled" ELSE "done"]
    /\ UNCHANGED <<running, prof_samples, thread, ppc, frozen, prof_summary>>
    /\ NotProfiler

\* _profiling_loop, "self.samples.append(sample)": the sample taken by
\* _sample_resources goes to whatever list self.samples is bound to now.
\* A sample is modelled by the thread that took it.
LoopAppend(t) ==
    /\ threads[t] = "sampled"
    /\ Len(prof_samples) < MaxProfSamples
    /\ prof_samples' = Append(prof_samples, t)
    /\ threads' = [threads EXCEPT ![t] = "sleep"]
    /\ UNCHANGED <<running, thread, ppc, frozen, prof_summary>>
    /\ NotProfiler

\* _profiling_loop, "time.sleep(self.sample_interval)" is over.
LoopWake(t) ==
    /\ threads[t] = "sleep"
    /\ threads' = [threads EXCEPT ![t] = "check"]
    /\ UNCHANGED <<running, prof_samples, thread, ppc, frozen, prof_summary>>
    /\ NotProfiler

\* get_summary(): the zero summary (without sample_count) for an empty
\* list, otherwise a summary whose sample_count is len(self.samples).
get_summary(samples) ==
    IF samples = <<>>
    THEN [has_count |-> FALSE, sample_count |-> 0]
    ELSE [has_count |-> TRUE, sample_count |-> Len(samples)]

GetSummary ==
    /\ ppc = "idle"
    /\ prof_summary' = <<get_summary(prof_samples)>>
    /\ UNCHANGED <<running, prof_samples, threads, thread, ppc, frozen>>
    /\ NotProfiler

\* ------------------------------------------------------------------ inputs
\* The command lines tried, as <<N, M, D, seed>>: every positive shape with
\* seed 0, the smallest shape with every accepted seed, each of N, M and D
\* in turn zero or negative, and a seed np.random.seed refuses.
GenerateInputs ==
    {<<N, M, D, 0>> : N \in 1..MaxN, M \in 1..MaxM, D \in 1..MaxD}
    \cup {<<1, 1, 1, seed>> : seed \in 0..MaxSeed}
    \cup {<<n, 1, 1, 0>> : n \in {-1, 0}}
    \cup {<<1, n, 1, 0>> : n \in {-1, 0}}
    \cup {<<1, 1, n, 0>> : n \in {-1, 0}}
    \cup {<<0, 0, 0, 0>>, <<1, 1, 1, -1>>}

NoSummary ==
    [exists |-> FALSE,
     content |-> [metadata |-> NoMetadata.content, baseline_samples |-> <<>>,
                  optimized_samples |-> <<>>, runs |-> 0]]

\* No runner has been started and its output directory is empty.
RunnerIdle ==
    /\ rpc = "idle"
    /\ rargs = NoArgs
    /\ rmeta = NoMetadata.content
    /\ lockOK = FALSE
    /\ results = <<>>
    /\ ridx = 0
    /\ wrote = FALSE
    /\ rerr = "none"
    /\ results_csv = NoFile
    /\ summary_json = NoSummary

\* The dataset directory does not exist and no command was run.
DatasetIdle ==
    /\ dirExists = FALSE
    /\ embeddings = NoFile
    /\ axes = NoFile
    /\ metadata = NoMetadata
    /\ lock = NoFile
    /\ last = NoCmd
    /\ tampered = "none"

\* No verdict was asked for.
VerdictIdle ==
    /\ cv_pair = <<>>
    /\ verdicts = <<>>

\* No report is being built.
BuilderIdle ==
    /\ runner_summary = <<>>
    /\ clock = 0
    /\ hostname = <<>>
    /\ bpc = "idle"
    /\ id_time = <<>>
    /\ report = <<>>
    /\ prev = <<>>

\* No impact was projected.
ImpactIdle ==
    /\ impact_in = <<>>
    /\ impact_out = <<>>

\* No sampler was started.
ProfilerIdle ==
    /\ running = FALSE
    /\ prof_samples = <<>>
    /\ threads = <<>>
    /\ thread = 0
    /\ ppc = "idle"
    /\ frozen = FALSE
    /\ prof_summary = <<>>

ReportIdle ==
    /\ VerdictIdle
    /\ BuilderIdle
    /\ ImpactIdle
    /\ ProfilerIdle

\* calculate_stats has not been called.
StatsIdle ==
    /\ samplesIn = <<>>
    /\ computed = FALSE
    /\ computedFrom = <<>>
    /\ stats = ZeroStats

Init ==
    /\ dirExists = FALSE
    /\ embeddings = NoFile
    /\ axes = NoFile
    /\ metadata = NoMetadata
    /\ lock = NoFile
    /\ last = NoCmd
    /\ tampered = "none"
    /\ RunnerIdle
    /\ StatsIdle
    /\ ReportIdle

\* The dataset commands and the environment.
Next ==
    \/ \E in \in GenerateInputs, force \in BOOLEAN :
          GenerateMain(in[1], in[2], in[3], in[4], force)
    \/ VerifyMain
    \/ \E name \in ArrayFiles :
          \E i \in 1..Len(FileNamed(Dir, name).content), b \in Byte :
             FlipByte(name, i, b)
    \/ \E name \in ArrayFiles :
          \E n \in TruncatedLengths(Len(FileNamed(Dir, name).content)) :
             Truncate(name, n)
    \/ \E name \in ArrayFiles, k \in {1, ItemSize}, b \in Byte :
          AppendBytes(name, k, b)
    \/ \E name \in AllFiles : RemoveFile(name)
    \/ \E c \in LockEdits(lock.content) : EditLock(c)

Spec == Init /\ [][Next]_vars

\* The --impls values tried: one and two well-formed words, and malformed
\* ones.
ImplArgs ==
    {<<<<"python", "naive">>>>,
     <<<<"python", "naive">>, <<"python", "numpy">>>>,
     <<<<"python", "naive">>, <<"python", "naive">>>>,
     <<<<"python", "naive">>, <<"rust">>>>,
     <<<<"c", "opt", "v2">>>>}

\* The runner is started on a directory a completed Generate left.
InitRunner ==
    /\ \E seed \in 0..MaxSeed :
          LET d == generate_dataset(EmptyDir, 1, 1, 1, seed).dir
          IN  /\ dirExists = d.dirExists
              /\ embeddings = d.embeddings
              /\ axes = d.axes
              /\ metadata = d.metadata
              /\ lock = d.lock
    /\ last = NoCmd
    /\ tampered = "none"
    /\ RunnerIdle
    /\ StatsIdle
    /\ ReportIdle

NextRunner ==
    \/ \E impls \in ImplArgs, runs \in 0..MaxRuns : RunnerStart(impls, runs)
    \/ RunnerCheckLock
    \/ RunnerParseImpls
    \/ RunnerBenchmark
    \/ RunnerSave
    \/ \E name \in ArrayFiles :
          \E i \in 1..Len(FileNamed(Dir, name).content), b \in Byte :
             FlipByte(name, i, b)
    \/ \E name \in ArrayFiles :
          \E n \in TruncatedLengths(Len(FileNamed(Dir, name).content)) :
             Truncate(name, n)
    \/ \E name \in ArrayFiles, k \in {1, ItemSize}, b \in Byte :
          AppendBytes(name, k, b)
    \/ \E name \in AllFiles : RemoveFile(name)
    \/ \E c \in LockEdits(lock.content) : EditLock(c)

SpecRunner == InitRunner /\ [][NextRunner]_vars

\* The sample sequences tried: every sequence of at most MaxSamples values,
\* and sequences long enough for the percentile indices to leave the ends
\* (10, 11 and 20 samples, rising, falling and mixed).
SampleValues == -1..MaxSample

LongSamples ==
    UNION {{[i \in 1..n |-> i], [i \in 1..n |-> 2 * (n - i)],
            [i \in 1..n |-> (i * 7) % 11]} : n \in {10, 11, 20}}

SampleSeqs ==
    UNION {[1..n -> SampleValues] : n \in 0..MaxSamples} \cup LongSamples

InitStats ==
    /\ dirExists = FALSE
    /\ embeddings = NoFile
    /\ axes = NoFile
    /\ metadata = NoMetadata
    /\ lock = NoFile
    /\ last = NoCmd
    /\ tampered = "none"
    /\ RunnerIdle
    /\ samplesIn \in SampleSeqs
    /\ computed = FALSE
    /\ computedFrom = <<>>
    /\ stats = ZeroStats
    /\ ReportIdle

NextStats ==
    \/ Compute
    \/ \E i \in 1..MaxSamples : Reorder(i)

SpecStats == InitStats /\ [][NextStats]_vars

\* The CV% values tried, in tenths of a percent: 0, and the values around
\* and on the two limits 5.0 and 15.0.
CvTenths == {0, 49, 50, 51, 100, 149, 150, 151, 160}

\* A Statistics Record whose cv_pct is t tenths of a percent.
StatsWithCv(t) == [ZeroStats EXCEPT !.cv_pct = Sqrt(Rat(t * t, 100))]

\* The Statistics Records tried: one for each value of CvTenths, and the
\* records of samples whose CV% is exactly 5.0 and exactly 15.0.
VerdictStats ==
    {StatsWithCv(t) : t \in CvTenths}
    \cup {calculate_stats(<<19, 20, 21>>), calculate_stats(<<17, 20, 23>>)}

InitVerdict ==
    /\ DatasetIdle
    /\ RunnerIdle
    /\ StatsIdle
    /\ BuilderIdle
    /\ ImpactIdle
    /\ ProfilerIdle
    /\ cv_pair \in [baseline : VerdictStats, optimized : VerdictStats]
    /\ verdicts = NoVerdicts

NextVerdict ==
    \/ DetermineVerdict
    \/ ConvertVerdict

SpecVerdict == InitVerdict /\ [][NextVerdict]_vars

\* The runner outputs tried: with both sample lists, with one or both keys
\* missing, with empty lists, with a baseline that is slower, faster, not
\* in order, and of non-positive median.
\* What the runner output can hold under cpu_affinity: run_all.py writes
\* args.cpu_affinity, a core number or null.
Affinities ==
    {NoAffinity, NullAffinity} \cup {IntAffinity(k) : k \in 0..MaxCore}

RunnerSummaries ==
    {[has_baseline |-> TRUE, baseline_samples |-> <<3, 1, 2>>,
      has_optimized |-> TRUE, optimized_samples |-> <<2, 1>>,
      cpu_affinity |-> NoAffinity],
     [has_baseline |-> TRUE, baseline_samples |-> <<2, 1>>,
      has_optimized |-> TRUE, optimized_samples |-> <<3, 1, 2>>,
      cpu_affinity |-> NoAffinity],
     [has_baseline |-> TRUE, baseline_samples |-> <<-1>>,
      has_optimized |-> TRUE, optimized_samples |-> <<2, 1>>,
      cpu_affinity |-> NoAffinity],
     [has_baseline |-> TRUE, baseline_samples |-> <<>>,
      has_optimized |-> TRUE, optimized_samples |-> <<>>,
      cpu_affinity |-> NoAffinity],
     [has_baseline |-> TRUE, baseline_samples |-> <<10, 11>>,
      has_optimized |-> TRUE, optimized_samples |-> <<20, 21>>,
      cpu_affinity |-> NoAffinity],
     [has_baseline |-> FALSE, baseline_samples |-> <<>>,
      has_optimized |-> TRUE, optimized_samples |-> <<3, 1, 2>>,
      cpu_affinity |-> NoAffinity],
     [has_baseline |-> TRUE, baseline_samples |-> <<3, 1, 2>>,
      has_optimized |-> FALSE, optimized_samples |-> <<>>,
      cpu_affinity |-> NoAffinity],
     NoSamplesGiven}
    \cup {[NoSamplesGiven EXCEPT !.cpu_affinity = a] : a \in Affinities}

Hosts == {<<"h", "1">>, <<"h", "2">>}

InitReport ==
    /\ DatasetIdle
    /\ RunnerIdle
    /\ StatsIdle
    /\ VerdictIdle
    /\ ImpactIdle
    /\ ProfilerIdle
    /\ runner_summary = NoSamplesGiven
    /\ clock = Epoch
    /\ hostname \in Hosts
    /\ bpc = "idle"
    /\ id_time = Epoch
    /\ report = NoReport
    /\ prev = NoBuild

NextReport ==
    \/ \E rs \in RunnerSummaries : LoadSummary(rs)
    \/ BuildStart
    \/ BuildFinish
    \/ Tick

SpecReport == InitReport /\ [][NextReport]_vars

\* The deltas tried: negative, zero and positive, whole and half
\* milliseconds.
Deltas == {Rat(k, 2) : k \in (-MaxDelta)..MaxDelta}

\* The configurations tried: for every option zero, build_report's default
\* and another value.
ImpactInputs ==
    [executions_per_day : {RatOfInt(0), RatOfInt(100), RatOfInt(3)},
     days_per_year : {RatOfInt(0), RatOfInt(250), RatOfInt(365)},
     cost_per_hour_eur : {RatOfInt(0), Rat(1, 2), RatOfInt(3)},
     electricity_kwh_per_hour : {RatOfInt(0), Rat(3, 20), RatOfInt(2)},
     co2_kg_per_kwh : {RatOfInt(0), Rat(19, 40), RatOfInt(1)}]

InitImpact ==
    /\ DatasetIdle
    /\ RunnerIdle
    /\ StatsIdle
    /\ VerdictIdle
    /\ BuilderIdle
    /\ ProfilerIdle
    /\ impact_in \in [delta_ms : Deltas, inputs : ImpactInputs]
    /\ impact_out = [once |-> NoImpact, twice |-> NoImpact]

NextImpact ==
    \/ Project
    \/ ProjectDouble

SpecImpact == InitImpact /\ [][NextImpact]_vars

\* One ResourceProfiler after __init__, driven by one caller.
InitProfiler ==
    /\ DatasetIdle
    /\ RunnerIdle
    /\ StatsIdle
    /\ VerdictIdle
    /\ BuilderIdle
    /\ ImpactIdle
    /\ ProfilerIdle

NextProfiler ==
    \/ Start
    \/ StopBegin
    \/ StopJoined
    \/ StopTimeout
    \/ \E t \in 1..Len(threads) : LoopCheck(t)
    \/ \E t \in 1..Len(threads) : LoopAppend(t)
    \/ \E t \in 1..Len(threads) : LoopWake(t)
    \/ GetSummary

SpecProfiler == InitProfiler /\ [][NextProfiler]_vars

\* ------------------------------------------------------------ properties
\* The directory is as the last completed Generate left it.
Pristine == metadata.exists /\ tampered = "none"

\* SHA-256 over the bytes of embeddings.f64 followed by those of axes.f64,
\* as they are on disk.
ArraysDigest == Sha256Hex(embeddings.content \o axes.content)

\* The array files on disk are the ones the Descriptor md was computed from.
ArraysMatch(md) ==
    /\ embeddings.exists
    /\ axes.exists
    /\ ArraysDigest = md.hash_sha256

\* c is the digest h with nothing but white space before and after it.
HoldsDigest(c, h) ==
    \E i \in 0..Len(c), j \in 0..Len(c) :
        /\ i + j <= Len(c)
        /\ \A k \in 1..i : c[k] \in Whitespace
        /\ \A k \in (Len(c) - j + 1)..Len(c) : c[k] \in Whitespace
        /\ SubSeq(c, i + 1, Len(c) - j) = h

\* An array file's size is not the one the Descriptor's shapes give.
SizeMismatch ==
    /\ metadata.exists
    /\ \/ /\ embeddings.exists
          /\ Len(embeddings.content)
               # metadata.content.embeddings_shape[1]
                 * metadata.content.embeddings_shape[2] * ItemSize
       \/ /\ axes.exists
          /\ Len(axes.content)
               # metadata.content.axes_shape[1]
                 * metadata.content.axes_shape[2] * ItemSize

\* C1: a completed Generate followed by Verify gives true (the function and
\* the --verify command, exit 0); after one byte of embeddings.f64 or
\* axes.f64 is changed, the length kept, Verify gives false.
C1_GenerateThenVerify ==
    /\ Pristine => verify_dataset(Dir) = "true"
    /\ tampered = "flip" => verify_dataset(Dir) = "false"
    /\ (last.op = "verify" /\ Pristine) =>
          (last.result = "true" /\ last.exit = 0)
    /\ (last.op = "verify" /\ tampered = "flip") =>
          (last.result = "false" /\ last.exit = 1)

\* C1 witness: --verify was run after a byte of axes.f64 changed in a
\* dataset of more than one row, and said false.
C1_Witness ==
    /\ last.op = "verify"
    /\ tampered = "flip"
    /\ last.result = "false"
    /\ metadata.content.N > 1
    /\ axes.content # RandnBytes(metadata.content.seed,
                                 metadata.content.N * metadata.content.D,
                                 metadata.content.M * metadata.content.D)

\* C2 (as claimed): whenever metadata.json or an array file is missing, an
\* array file's size does not match the Descriptor's shapes, or the
\* recomputed hash differs from the stored one, verify_dataset returns
\* false: it neither raises nor returns true.
C2_VerifyFailsClosed ==
    (\/ ~metadata.exists
     \/ ~embeddings.exists
     \/ ~axes.exists
     \/ SizeMismatch
     \/ ~ArraysMatch(metadata.content))
    => verify_dataset(Dir) = "false"

\* C3 (as claimed): when the runner passes its lock check, and at every call
\* of run_benchmark_impl, the array files on disk hash to the Descriptor's
\* hash_sha256.
C3_LockCheckPinsArrays ==
    [][/\ (rpc = "loaded" /\ rpc' = "verified") => ArraysMatch(rmeta)
       /\ ridx' > ridx => ArraysMatch(rmeta)]_vars

\* C4: run_benchmark_impl is called and results.csv / summary.json are
\* written only after verify_dataset_lock returned true in the same
\* execution; a lock check on a missing lock file, or on one that does not
\* hold the metadata hash, ends the execution with exit 1, no sample taken
\* and no result file written.
C4_LockCheckBeforeBenchmark ==
    [][/\ (\/ ridx' > ridx
           \/ results' # results /\ results' # <<>>
           \/ results_csv' # results_csv
           \/ summary_json' # summary_json) => lockOK
       /\ (/\ rpc = "loaded"
           /\ rpc' # "loaded"
           /\ \/ ~lock.exists
              \/ ~HoldsDigest(lock.content, rmeta.hash_sha256))
          => (/\ rpc' = "exit1"
              /\ rerr' = "LockFailed"
              /\ ~lockOK'
              /\ results' = <<>>
              /\ ridx' = 0
              /\ ~wrote'
              /\ results_csv' = results_csv
              /\ summary_json' = summary_json)
       /\ rerr' = "LockFailed"
          => (/\ rpc' = "exit1"
              /\ ridx' = 0
              /\ results' = <<>>
              /\ ~wrote')]_vars

\* C4 witness: an execution ended at the lock check, in a directory where
\* an earlier execution had written its results.
C4_Witness ==
    /\ rpc = "exit1"
    /\ rerr = "LockFailed"
    /\ ~wrote
    /\ summary_json.exists

\* C5 (as claimed): verify_dataset_lock returns true exactly when the lock
\* file exists and its content equals hash_sha256 character for character.
C5_CheckLockPureEquality ==
    metadata.exists =>
        (verify_dataset_lock(metadata.content, Dir)
         <=> (lock.exists /\ lock.content = metadata.content.hash_sha256))

\* C5 (amended): verify_dataset_lock returns true exactly when the lock file
\* exists and its content is hash_sha256 with nothing but white space before
\* and after it, and false when the lock file does not exist.
C5_CheckLockUpToWhitespace ==
    metadata.exists =>
        (verify_dataset_lock(metadata.content, Dir)
         <=> (lock.exists
              /\ HoldsDigest(lock.content, metadata.content.hash_sha256)))

\* C5 witness: the lock file holds the digest followed by a line break, and
\* the runner's lock check has passed on it.
C5_Witness ==
    /\ lock.exists
    /\ lock.content = metadata.content.hash_sha256 \o <<"\n">>
    /\ rpc = "verified"
    /\ lockOK

\* C6: after a completed Generate, forced overwrites included, dataset.lock
\* holds metadata.json's hash_sha256, which is SHA-256 over the bytes of
\* embeddings.f64 followed by those of axes.f64; Verify and CheckLock both
\* succeed.
C6_HashesAgree ==
    Pristine =>
        /\ lock.exists
        /\ lock.content = metadata.content.hash_sha256
        /\ ArraysMatch(metadata.content)
        /\ verify_dataset(Dir) = "true"
        /\ verify_dataset_lock(metadata.content, Dir)

\* C6 witness: a forced Generate has replaced a Descriptor by a different
\* one.
C6_Witness ==
    /\ Pristine
    /\ last.op = "generate"
    /\ last.force
    /\ last.replaced
    /\ last.exit = 0

\* C7: Generate without --force on a directory that holds metadata.json
\* exits 1 with AlreadyExists and leaves every file as it was.
C7_AlreadyExistsKeepsFiles ==
    [][(metadata.exists /\ last'.op = "generate" /\ ~last'.force)
       => (/\ last'.exit = 1
           /\ last'.err = "AlreadyExists"
           /\ dataVars' = dataVars)]_vars

\* C7 witness: a Generate without --force was refused on an existing
\* dataset.
C7_Witness ==
    /\ metadata.exists
    /\ last.op = "generate"
    /\ ~last.force
    /\ last.positive
    /\ last.err = "AlreadyExists"

\* C8 (as claimed): Generate with N, M or D <= 0 fails with
\* InvalidParameters and writes nothing.
C8_NonPositiveIsInvalidParameters ==
    [][(last'.op = "generate" /\ ~last'.positive)
       => (/\ last'.exit = 1
           /\ last'.err = "InvalidParameters"
           /\ dataVars' = dataVars)]_vars

\* C8 (amended): Generate with N, M or D <= 0 exits 1 and writes nothing
\* (no directory, no file created or overwritten), with --force on an
\* existing dataset too; the diagnostic is InvalidParameters, except that a
\* Descriptor that exists without --force is reported first, as
\* AlreadyExists.
C8_NonPositiveWritesNothing ==
    [][(last'.op = "generate" /\ ~last'.positive)
       => (/\ last'.exit = 1
           /\ last'.err = IF metadata.exists /\ ~last'.force
                          THEN "AlreadyExists" ELSE "InvalidParameters"
           /\ dataVars' = dataVars)]_vars

\* C8 witness: a forced Generate with a non-positive dimension was refused
\* on an existing dataset.
C8_Witness ==
    /\ metadata.exists
    /\ last.op = "generate"
    /\ last.force
    /\ ~last.positive
    /\ last.err = "InvalidParameters"

\* C9: calculate_stats never fails on degenerate input: for the empty
\* sequence every field is zero, and for <<x>> median = mean = x, std = 0,
\* cv_pct = 0 and p10 = p90 = x.
C9_DegenerateInput ==
    computed =>
        /\ computedFrom = <<>> => stats = ZeroStats
        /\ Len(computedFrom) = 1 =>
              /\ stats.median = RatOfInt(computedFrom[1])
              /\ stats.mean = RatOfInt(computedFrom[1])
              /\ stats.std = Sqrt(RatOfInt(0))
              /\ stats.cv_pct = Sqrt(RatOfInt(0))
              /\ stats.p10 = RatOfInt(computedFrom[1])
              /\ stats.p90 = RatOfInt(computedFrom[1])

\* C9 witness: calculate_stats was called with one sample that is not zero.
C9_Witness ==
    /\ computed
    /\ Len(computedFrom) = 1
    /\ computedFrom[1] # 0
    /\ stats.mean = RatOfInt(computedFrom[1])

\* C10: calculate_stats gives the same record for every order of the same
\* samples: the record computed before the sequence was reordered is the
\* one calculate_stats gives for the sequence as it is now.
C10_OrderInvariant ==
    computed => calculate_stats(samplesIn) = stats

\* C10 witness: a record was computed, and the sequence now stands in
\* another order, with another first and another last element.
C10_Witness ==
    /\ computed
    /\ Len(samplesIn) >= 3
    /\ samplesIn # computedFrom
    /\ samplesIn[1] # computedFrom[1]
    /\ samplesIn[Len(samplesIn)] # computedFrom[Len(samplesIn)]
    /\ stats.p10 # stats.p90

\* ----------------------------------------------- reference definitions
\* How many elements of s are below v, and how many are at most v.
CountBelow(s, v) == Cardinality({i \in 1..Len(s) : s[i] < v})

CountAtMost(s, v) == Cardinality({i \in 1..Len(s) : s[i] <= v})

\* The k-th smallest element of s (k from 1), by rank and not by sorting.
OrderStat(s, k) ==
    CHOOSE v \in {s[i] : i \in 1..Len(s)} :
        CountBelow(s, v) < k /\ k <= CountAtMost(s, v)

\* floor(n * t / 10).
FloorTenths(n, t) == CHOOSE k \in 0..n : 10 * k <= n * t /\ n * t < 10 * (k + 1)

\* The standard median of s, s not empty.
RefMedian(s) ==
    LET n == Len(s)
    IN  IF n % 2 = 1 THEN RatOfInt(OrderStat(s, (n + 1) \div 2))
        ELSE Rat(OrderStat(s, n \div 2) + OrderStat(s, (n \div 2) + 1), 2)

\* C11: for every non-empty sample sequence of length n, median is the
\* standard median (middle element for odd n, mean of the two middle
\* elements for even n), p10 and p90 are the elements of the sorted copy at
\* the zero-based indices floor(n * 0.1) and floor(n * 0.9), and both indices
\* are at least 0 and below n.
C11_OrderStatistics ==
    (computed /\ computedFrom # <<>>) =>
        LET n == Len(computedFrom)
        IN  /\ stats.median = RefMedian(computedFrom)
            /\ P10Idx(n) = FloorTenths(n, 1)
            /\ P90Idx(n) = FloorTenths(n, 9)
            /\ P10Idx(n) \in 0..(n - 1)
            /\ P90Idx(n) \in 0..(n - 1)
            /\ stats.p10 = RatOfInt(OrderStat(computedFrom, FloorTenths(n, 1) + 1))
            /\ stats.p90 = RatOfInt(OrderStat(computedFrom, FloorTenths(n, 9) + 1))

\* C11 witness: statistics were computed for 20 samples given in no order,
\* and p10 and p90 are neither the smallest nor the largest sample.
C11_Witness ==
    /\ computed
    /\ Len(computedFrom) = 20
    /\ computedFrom # Sorted(computedFrom)
    /\ stats.p10 # RatOfInt(OrderStat(computedFrom, 1))
    /\ stats.p90 # RatOfInt(OrderStat(computedFrom, 20))
    /\ stats.median.den = 2

\* The CV% of a Statistics Record of VerdictStats, in tenths of a percent.
TenthsOf(st) == CHOOSE t \in CvTenths : st.cv_pct = Sqrt(Rat(t * t, 100))

\* C12: determine_verdict follows the three-branch rule with strict limits:
\* both CV% below 5.0 is conclusive, otherwise either above 15.0 is
\* inconclusive, otherwise conclusive; {4.9, 4.9} is conclusive, {5.1, 16.0}
\* inconclusive, {5.1, 10.0}, {5.1, 15.0}, {5.0, 5.0} and {15.0, 15.0}
\* conclusive.
C12_VerdictRule ==
    verdicts.builder # "none" =>
        LET b == TenthsOf(cv_pair.baseline)
            o == TenthsOf(cv_pair.optimized)
        IN  /\ verdicts.builder =
                  IF b < 50 /\ o < 50 THEN "conclusive"
                  ELSE IF b > 150 \/ o > 150 THEN "inconclusive"
                  ELSE "conclusive"
            /\ (b = 49 /\ o = 49) => verdicts.builder = "conclusive"
            /\ (b = 51 /\ o = 160) => verdicts.builder = "inconclusive"
            /\ (b = 51 /\ o = 100) => verdicts.builder = "conclusive"
            /\ (b = 51 /\ o = 150) => verdicts.builder = "conclusive"
            /\ (b = 50 /\ o = 50) => verdicts.builder = "conclusive"
            /\ (b = 150 /\ o = 150) => verdicts.builder = "conclusive"

\* C12 witness: the verdict was given for samples whose CV% is exactly 15.0
\* on the baseline side and a CV% of 5.1 on the other side.
C12_Witness ==
    /\ verdicts.builder = "conclusive"
    /\ cv_pair.baseline = calculate_stats(<<17, 20, 23>>)
    /\ TenthsOf(cv_pair.optimized) = 51

MedianOrZero(samples) ==
    IF samples = <<>> THEN RatOfInt(0) ELSE RefMedian(samples)

\* C14: in every report, delta_ms is baseline.median - optimized.median, and
\* gain_pct is delta_ms / baseline.median * 100 when baseline.median > 0 and
\* 0 when baseline.median <= 0, empty sample lists included.
C14_DeltaAndGain ==
    bpc \in {"id_taken", "done"} =>
        LET bm == MedianOrZero(GetSamples(runner_summary, "baseline_samples"))
            om == MedianOrZero(GetSamples(runner_summary, "optimized_samples"))
            delta == report.summary.delta_ms
            gain == report.summary.gain_pct
        IN  /\ report.summary.baseline_stats.median = bm
            /\ report.summary.optimized_stats.median = om
            /\ RatSub(delta, RatSub(bm, om)) = RatOfInt(0)
            /\ bm.num > 0 => RatMul(gain, bm) = RatMul(delta, RatOfInt(100))
            /\ bm.num <= 0 => gain = RatOfInt(0)

\* C14 witness: a report was built from a baseline of negative median and
\* an optimized side of positive median.
C14_Witness ==
    /\ bpc = "done"
    /\ report.summary.baseline_stats.median.num < 0
    /\ report.summary.optimized_stats.median.num > 0
    /\ report.summary.delta_ms.num < 0
    /\ report.summary.gain_pct = RatOfInt(0)

\* C15: when the runner output lacks baseline_samples, optimized_samples or
\* both, build_report still returns a report; the side that is missing has
\* no samples and the all-zero Statistics Record, and with both missing
\* delta_ms and gain_pct are 0.
C15_MissingSamples ==
    bpc \in {"id_taken", "done"} =>
        /\ ~runner_summary.has_baseline =>
              /\ report.summary.baseline_stats = ZeroStats
              /\ report.runs.baseline = RunRecord(<<>>)
        /\ ~runner_summary.has_optimized =>
              /\ report.summary.optimized_stats = ZeroStats
              /\ report.runs.optimized = RunRecord(<<>>)
        /\ (~runner_summary.has_baseline /\ ~runner_summary.has_optimized) =>
              /\ report.summary.delta_ms = RatOfInt(0)
              /\ report.summary.gain_pct = RatOfInt(0)

\* C15 witness: a report was built from a runner output without
\* baseline_samples whose optimized side has samples.
C15_Witness ==
    /\ bpc = "done"
    /\ ~runner_summary.has_baseline
    /\ runner_summary.has_optimized
    /\ report.runs.optimized.samples # <<>>
    /\ report.summary.baseline_stats = ZeroStats
    /\ report.summary.delta_ms.num < 0

\* C16: the report id depends on the time of the build and on the host
\* only.  Of two builds on one host, the time of a build being the instant
\* its id was made at: with the same runner output and different times the
\* ids differ, and with the same time the ids are the same whatever the
\* runner outputs are.
C16_ReportIdIsNonce ==
    (prev.built /\ bpc \in {"id_taken", "done"}) =>
        /\ (prev.runner_summary = runner_summary /\ prev.id_time # id_time)
           => prev.report.meta.report_id # report.meta.report_id
        /\ prev.id_time = id_time
           => prev.report.meta.report_id = report.meta.report_id

\* C16 witness: two builds from the same runner output with samples, the
\* second a microsecond or more after the first, have different ids.
C16_Witness ==
    /\ prev.built
    /\ bpc = "done"
    /\ prev.runner_summary = runner_summary
    /\ runner_summary.has_baseline
    /\ runner_summary.baseline_samples # <<>>
    /\ prev.report.summary = report.summary
    /\ prev.id_time.second = id_time.second
    /\ prev.report.meta.report_id # report.meta.report_id

\* A timestamp without its last character.
WithoutZ(stamp) == SubSeq(stamp, 1, Len(stamp) - 1)

\* C17 (as claimed): in every report, report_id is the 16-digit digest of
\* the report's generated_at (without the Z) followed by the hostname, also
\* when the clock moves while the report is built.
C17_IdHashesGeneratedAt ==
    bpc = "done" =>
        report.meta.report_id =
            Sha256Hex16(WithoutZ(report.meta.generated_at) \o hostname)

\* Twice a rational.
Twice(x) == Rat(2 * x.num, x.den)

\* C18: calculate_impact is linear in delta_ms: for every delta d and every
\* configuration with non-negative options, each output for 2 * d is twice
\* the output for d (time, cost, electricity and CO2); a negative d is
\* accepted and gives outputs that are negative or zero.
C18_ImpactLinear ==
    /\ (impact_out.once.computed /\ impact_out.twice.computed) =>
          LET one == impact_out.once.outputs
              two == impact_out.twice.outputs
          IN  /\ two.time_saved_hours_per_year
                   = Twice(one.time_saved_hours_per_year)
              /\ two.cost_saved_eur_per_year
                   = Twice(one.cost_saved_eur_per_year)
              /\ two.electricity_saved_kwh_per_year
                   = Twice(one.electricity_saved_kwh_per_year)
              /\ two.co2_avoided_kg_per_year
                   = Twice(one.co2_avoided_kg_per_year)
    /\ (impact_out.once.computed /\ impact_in.delta_ms.num < 0) =>
          LET one == impact_out.once.outputs
          IN  /\ one.time_saved_hours_per_year.num <= 0
              /\ one.cost_saved_eur_per_year.num <= 0
              /\ one.electricity_saved_kwh_per_year.num <= 0
              /\ one.co2_avoided_kg_per_year.num <= 0

\* C18 witness: both projections were made for a negative delta of half a
\* millisecond under build_report's default configuration, and the CO2
\* output is negative.
C18_Witness ==
    /\ impact_out.once.computed
    /\ impact_out.twice.computed
    /\ impact_in.delta_ms = Rat(-1, 2)
    /\ impact_in.inputs = DefaultImpactInputs
    /\ impact_out.once.outputs.co2_avoided_kg_per_year.num < 0
    /\ impact_out.twice.outputs.co2_avoided_kg_per_year
         # impact_out.once.outputs.co2_avoided_kg_per_year

\* C19: the sample lists are never reordered or altered: the calls of
\* calculate_stats leave the runner's lists as they were (only a copy is
\* sorted), and the report's runs.baseline.samples and
\* runs.optimized.samples are the runner's lists element for element, in
\* their order, with one "success" in status for every sample.
C19_SamplesKeptInOrder ==
    [][bpc' \in {"id_taken", "done"} =>
          LET b == GetSamples(runner_summary, "baseline_samples")
              o == GetSamples(runner_summary, "optimized_samples")
          IN  /\ runner_summary' = runner_summary
              /\ Len(report'.runs.baseline.samples) = Len(b)
              /\ \A i \in 1..Len(b) : report'.runs.baseline.samples[i] = b[i]
              /\ Len(report'.runs.optimized.samples) = Len(o)
              /\ \A i \in 1..Len(o) : report'.runs.optimized.samples[i] = o[i]
              /\ Len(report'.runs.baseline.status) = Len(b)
              /\ \A i \in 1..Len(b) :
                    report'.runs.baseline.status[i] = "success"
              /\ Len(report'.runs.optimized.status) = Len(o)
              /\ \A i \in 1..Len(o) :
                    report'.runs.optimized.status[i] = "success"]_vars

\* C19 witness: a report was built from a baseline list that is not in
\* ascending order, and its percentiles come from the sorted copy.
C19_Witness ==
    /\ bpc = "done"
    /\ runner_summary.has_baseline
    /\ runner_summary.baseline_samples # Sorted(runner_summary.baseline_samples)
    /\ report.runs.baseline.samples = runner_summary.baseline_samples
    /\ report.summary.baseline_stats.p10
         # RatOfInt(runner_summary.baseline_samples[1])

\* C20: once stop() has returned, and until the next start(), no sample
\* is appended to the sample list, whatever the interleaving of the
\* sampling loop with the caller.
C20_FrozenAfterStop ==
    [][(frozen /\ frozen') => prof_samples' = prof_samples]_vars

\* The sampling loops that are alive and will go on appending: a loop that
\* is alive while running is set passes its next test of the flag.
LoopsAppending ==
    {t \in 1..Len(threads) : running /\ IsAlive(t)}

\* C21: whatever the sequence of start() and stop() calls, at most one
\* sampling loop is alive and appending to samples at any time; a start()
\* after a stop() whose join timed out does not leave the previous loop
\* running beside the new one.
C21_SingleSamplingLoop ==
    Cardinality(LoopsAppending) <= 1

\* C22: a report built from a run without any samples (both lists empty
\* or missing) has all-zero statistics on both sides and the verdict
\* "conclusive"; and whatever the samples, the verdict of a report is
\* "inconclusive" exactly when the CV% of at least one side is strictly
\* greater than 15.0.
C22_EmptyRunIsConclusive ==
    bpc \in {"id_taken", "done"} =>
        LET summary == report.summary
            baseline_cv == summary.baseline_stats.cv_pct
            optimized_cv == summary.optimized_stats.cv_pct
        IN  /\ (/\ GetSamples(runner_summary, "baseline_samples") = <<>>
                /\ GetSamples(runner_summary, "optimized_samples") = <<>>)
                  => /\ summary.baseline_stats = ZeroStats
                     /\ summary.optimized_stats = ZeroStats
                     /\ summary.verdict = "conclusive"
            /\ summary.verdict \in {"conclusive", "inconclusive"}
            /\ summary.verdict = "inconclusive"
                  <=> (CvAbove(baseline_cv, 15) \/ CvAbove(optimized_cv, 15))

\* C22 witness: a report was built from a runner output without the two
\* sample keys, and its verdict is "conclusive".
C22_Witness ==
    /\ bpc = "done"
    /\ ~runner_summary.has_baseline
    /\ ~runner_summary.has_optimized
    /\ report.summary.verdict = "conclusive"

\* C23: whenever the runner output carries a cpu_affinity value (any core
\* number, core 0 included) the report's benchmark.cpu_affinity is that
\* value, and the default is used only when the key is missing or null.
C23_CpuAffinitySnapshot ==
    bpc \in {"id_taken", "done"} =>
        IF runner_summary.cpu_affinity.kind = "int"
        THEN report.benchmark.cpu_affinity = runner_summary.cpu_affinity.value
        ELSE report.benchmark.cpu_affinity = DefaultCpuAffinity

=============================================================================
